---- MODULE Spec2Model ----
(***************************************************************************)
(* pcopy: the copy/dedup/concurrency engine of photoutils (package         *)
(* pcopylib) together with the dispatch of the pcopy front end.            *)
(*                                                                         *)
(* A path is a sequence of one-character strings, so that the slicing,     *)
(* joining and extension arithmetic of the code is computed, not assumed.  *)
(* The file system maps cleaned paths to nodes (a directory, or a file     *)
(* with a content).                                                        *)
(***************************************************************************)
EXTENDS Integers, Sequences, FiniteSets, TLC

(***************************************************************************)
(* Strings and paths (path/filepath, strconv)                              *)
(***************************************************************************)

\* The byte order of the characters used in names ('(' < ')' < '.' < '/' <
\* digits < letters), as sort.StringSlice compares them.
Alphabet == <<"(", ")", ".", "/", "0", "1", "2", "3", "4", "5", "6", "7", "8", "9",
              "a", "b", "d", "j", "s", "t", "u">>

CharOrd(c) == CHOOSE i \in 1..Len(Alphabet) : Alphabet[i] = c

RECURSIVE StrLess(_, _)
StrLess(a, b) ==
    IF b = <<>> THEN FALSE
    ELSE IF a = <<>> THEN TRUE
    ELSE IF Head(a) # Head(b) THEN CharOrd(Head(a)) < CharOrd(Head(b))
    ELSE StrLess(Tail(a), Tail(b))

\* s[from:] of Go, from counted from 0
SliceFrom(s, from) == SubSeq(s, from + 1, Len(s))

\* s[:to] of Go
SliceTo(s, to) == SubSeq(s, 1, to)

\* index (1-based) of the last "/" of s, 0 when there is none
LastSep(s) ==
    LET idx == {i \in 1..Len(s) : s[i] = "/"}
    IN  IF idx = {} THEN 0 ELSE CHOOSE i \in idx : \A k \in idx : k <= i

\* the elements of a path between separators, empty elements and "." dropped
RECURSIVE Elements(_)
Elements(s) ==
    IF s = <<>> THEN <<>>
    ELSE LET seps == {i \in 1..Len(s) : s[i] = "/"}
             cut  == IF seps = {} THEN Len(s) + 1
                     ELSE CHOOSE i \in seps : \A k \in seps : i <= k
             el   == SubSeq(s, 1, cut - 1)
             rest == Elements(SubSeq(s, cut + 1, Len(s)))
         IN  IF el = <<>> \/ el = <<".">> THEN rest ELSE <<el>> \o rest

RECURSIVE JoinElements(_)
JoinElements(els) ==
    IF els = <<>> THEN <<>>
    ELSE IF Len(els) = 1 THEN els[1]
    ELSE els[1] \o <<"/">> \o JoinElements(Tail(els))

\* filepath.Clean on relative paths without ".." elements: repeated
\* separators, "." elements and a trailing separator are removed; the empty
\* result is "."
Clean(p) ==
    LET c == JoinElements(Elements(p)) IN IF c = <<>> THEN <<".">> ELSE c

\* filepath.Join(a, b): empty elements are ignored, the result is cleaned
Join(a, b) ==
    IF a = <<>> /\ b = <<>> THEN <<>>
    ELSE IF a = <<>> THEN Clean(b)
    ELSE IF b = <<>> THEN Clean(a)
    ELSE Clean(a \o <<"/">> \o b)

RECURSIVE StripTrailingSep(_)
StripTrailingSep(p) ==
    IF Len(p) > 0 /\ p[Len(p)] = "/" THEN StripTrailingSep(SubSeq(p, 1, Len(p) - 1))
    ELSE p

\* filepath.Base
Base(p) ==
    IF p = <<>> THEN <<".">>
    ELSE LET q == StripTrailingSep(p)
         IN  IF q = <<>> THEN <<"/">> ELSE SliceFrom(q, LastSep(q))

\* filepath.Dir: everything up to the last separator, cleaned
Dir(p) == Clean(SliceTo(p, LastSep(p)))

\* filepath.Ext: the suffix starting at the last "." of the last element
Ext(p) ==
    LET dots == {i \in (LastSep(p) + 1)..Len(p) : p[i] = "."}
    IN  IF dots = {} THEN <<>>
        ELSE SubSeq(p, CHOOSE i \in dots : \A k \in dots : k <= i, Len(p))

Digits == <<"0", "1", "2", "3", "4", "5", "6", "7", "8", "9">>

\* strconv.Itoa for n >= 0
RECURSIVE Itoa(_)
Itoa(n) == IF n < 10 THEN <<Digits[n + 1]>> ELSE Itoa(n \div 10) \o <<Digits[(n % 10) + 1]>>

renameFile(target, idx) ==
    LET extName == Ext(target)
    IN  SliceTo(target, Len(target) - Len(extName)) \o <<"(">> \o Itoa(idx) \o <<")">> \o extName

(***************************************************************************)
(* File system, contents and fingerprints                                  *)
(***************************************************************************)

RECURSIVE SortAsc(_)
\* the elements of a finite set of strings in increasing byte order
SortAsc(S) ==
    IF S = {} THEN <<>>
    ELSE LET m == CHOOSE x \in S : \A y \in S \ {x} : StrLess(x, y)
         IN  <<m>> \o SortAsc(S \ {m})

Reverse_asRecorded(q) == q

RECURSIVE Reverse(_)
Reverse(q) == IF q = <<>> THEN <<>> ELSE Reverse(Tail(q)) \o <<Head(q)>>

Range(q) == {q[i] : i \in 1..Len(q)}

\* A content: its size in bytes, the bytes inside the four sampled windows
\* (win) and the bytes outside them (rest).
blockSize == 50 * 1024
sampleThreshold == 500 * 1024
BigSize == sampleThreshold + 2 * blockSize

cA   == [size |-> 10, win |-> "a", rest |-> ""]
cB   == [size |-> 10, win |-> "b", rest |-> ""]
cC   == [size |-> 10, win |-> "c", rest |-> ""]
BigP == [size |-> BigSize, win |-> "w", rest |-> "p"]
BigQ == [size |-> BigSize, win |-> "w", rest |-> "q"]
Truncated == [size |-> 0, win |-> "", rest |-> ""]

DirNode == [kind |-> "dir"]
FileNode(c) == [kind |-> "file", content |-> c]
NoNode == [kind |-> "none"]

\* os.Stat: the node a path resolves to, NoNode when the lookup fails (the
\* path is empty or absent, or it names a file with a trailing separator)
Stat(f, path) ==
    IF path = <<>> THEN NoNode
    ELSE LET r == Clean(path)
         IN  IF r \notin DOMAIN f THEN NoNode
             ELSE IF f[r].kind = "file" /\ path[Len(path)] = "/" THEN NoNode
             ELSE f[r]

FileExistStatus_File == "File"
FileExistStatus_Directory == "Directory"
FileExistStatus_NotExist == "NotExist"

IsFileExist(f, path) ==
    LET fileinfo == Stat(f, path)
    IN  IF fileinfo.kind = "none" THEN FileExistStatus_NotExist
        ELSE IF fileinfo.kind = "dir" THEN FileExistStatus_Directory
        ELSE FileExistStatus_File

\* FileInfo.Size: the length of a file; a directory reports one block
Size(node) == IF node.kind = "dir" THEN 4096 ELSE node.content.size

\* md5 over every byte of the file; reading a directory yields no byte
getFullHash(f, filename) ==
    LET n == Stat(f, filename)
    IN  IF n.kind = "none" THEN <<>>
        ELSE IF n.kind = "dir" THEN <<"md5", "", "">>
        ELSE <<"md5", n.content.win, n.content.rest>>

\* md5 over the four sampled windows only
getParticalHash(f, filename, filesize) ==
    LET n == Stat(f, filename)
    IN  IF n.kind = "none" THEN <<>>
        ELSE IF n.kind = "dir" THEN <<"md5", "">>
        ELSE <<"md5", n.content.win>>

hasSameContent_neverSame(f, source, target, fullHashMode) ==
    IF Stat(f, source).kind = "none" \/ Stat(f, target).kind = "none" THEN "panic"
    ELSE "differs"

\* "same", "differs", or "panic" when a stat failed and the nil FileInfo is
\* dereferenced
hasSameContent(f, source, target, fullHashMode) ==
    LET fiSource == Stat(f, source)
        fiTarget == Stat(f, target)
    IN  IF fiSource.kind = "none" \/ fiTarget.kind = "none" THEN "panic"
        ELSE LET srcSize == Size(fiSource)
                 dstSize == Size(fiTarget)
                 sampled == ~fullHashMode /\ srcSize > sampleThreshold
                 srcMD5  == IF sampled THEN getParticalHash(f, source, srcSize)
                            ELSE getFullHash(f, source)
                 dstMD5  == IF sampled THEN getParticalHash(f, target, dstSize)
                            ELSE getFullHash(f, target)
             IN  IF srcSize # dstSize THEN "differs"
                 ELSE IF srcMD5 = dstMD5 /\ Len(srcMD5) # 0 /\ Len(dstMD5) # 0 THEN "same"
                 ELSE "differs"

RemovePath(f, p) == [q \in DOMAIN f \ {Clean(p)} |-> f[q]]

PutNode(f, p, n) == [q \in DOMAIN f \cup {Clean(p)} |-> IF q = Clean(p) THEN n ELSE f[q]]

Children(f, p) == {q \in DOMAIN f : q # <<".">> /\ Dir(q) = Clean(p)}

\* os.Rename of a file (rename(2)): fails when the source is missing, the
\* parent of the target is no directory, or the target is a directory;
\* replaces an existing target file; renaming a file onto itself does nothing
RenameOk(f, src, dst) ==
    /\ Stat(f, src).kind = "file"
    /\ dst # <<>>
    /\ dst[Len(dst)] # "/"
    /\ Stat(f, Dir(dst)).kind = "dir"
    /\ Stat(f, dst).kind # "dir"

Rename(f, src, dst) ==
    IF ~RenameOk(f, src, dst) \/ Clean(src) = Clean(dst) THEN f
    ELSE PutNode(RemovePath(f, src), dst, f[Clean(src)])

\* os.Remove: a file, or an empty directory
Remove(f, p) ==
    LET n == Stat(f, p)
    IN  IF n.kind = "none" THEN f
        ELSE IF n.kind = "dir" /\ Children(f, p) # {} THEN f
        ELSE RemovePath(f, p)

\* os.MkdirAll of a path whose parent exists: creates the directory unless
\* something is there already or the parent is no directory
MkdirAll(f, p) ==
    IF Stat(f, p).kind = "none" /\ Stat(f, Dir(p)).kind = "dir"
    THEN PutNode(f, p, DirNode) ELSE f

\* doCopy: stat and open the source, create (truncate) the target, stream
\* the bytes; `written` is what reached the target before the stream ended
doCopyOk(f, source, target) ==
    /\ Stat(f, source).kind = "file"
    /\ target # <<>>
    /\ target[Len(target)] # "/"
    /\ Stat(f, Dir(target)).kind = "dir"
    /\ Stat(f, target).kind # "dir"

doCopy(f, source, target, complete) ==
    IF ~doCopyOk(f, source, target) THEN f
    ELSE IF Clean(source) = Clean(target) \/ ~complete THEN PutNode(f, target, FileNode(Truncated))
    ELSE PutNode(f, target, FileNode(f[Clean(source)].content))

(***************************************************************************)
(* int64 arithmetic and the offsets of the sampled windows                 *)
(***************************************************************************)

\* An int64 is four 16-bit limbs, most significant first, in two's
\* complement; every operation wraps as Go's does.
Limb == 65536

\* the int64 of a number 0 <= n < 2^31
I64(n) == <<0, 0, n \div Limb, n % Limb>>

Add64(a, b) ==
    LET s4 == a[4] + b[4]
        s3 == a[3] + b[3] + (s4 \div Limb)
        s2 == a[2] + b[2] + (s3 \div Limb)
        s1 == a[1] + b[1] + (s2 \div Limb)
    IN  <<s1 % Limb, s2 % Limb, s3 % Limb, s4 % Limb>>

Neg64(a) == Add64([i \in 1..4 |-> Limb - 1 - a[i]], I64(1))

Sub64(a, b) == Add64(a, Neg64(b))

IsNeg64(a) == a[1] >= Limb \div 2

\* unsigned comparison, limb by limb
RECURSIVE ULess64(_, _)
ULess64(a, b) ==
    IF a = <<>> THEN FALSE
    ELSE IF Head(a) # Head(b) THEN Head(a) < Head(b)
    ELSE ULess64(Tail(a), Tail(b))

Less64(a, b) == IF IsNeg64(a) # IsNeg64(b) THEN IsNeg64(a) ELSE ULess64(a, b)

Leq64(a, b) == a = b \/ Less64(a, b)

\* 2 * a
Mul2_64(a) == Add64(a, a)

\* unsigned long division by three
UDiv3_64(a) ==
    LET c1 == a[1]
        c2 == (c1 % 3) * Limb + a[2]
        c3 == (c2 % 3) * Limb + a[3]
        c4 == (c3 % 3) * Limb + a[4]
    IN  <<c1 \div 3, c2 \div 3, c3 \div 3, c4 \div 3>>

\* a / 3, truncated toward zero
Div3_64(a) == IF IsNeg64(a) THEN Neg64(UDiv3_64(Neg64(a))) ELSE UDiv3_64(a)

\* line 91: the offsets of the four windows
blockOffsets(filesize) ==
    LET span == Sub64(filesize, I64(blockSize))
    IN  <<I64(0), Div3_64(span), Div3_64(Mul2_64(span)), span>>

\* line 121: the test that selects the sampled strategy
Sampled(fullHash, size) == ~fullHash /\ Less64(I64(sampleThreshold), size)

(***************************************************************************)
(* Bounds and inputs                                                       *)
(***************************************************************************)

\* at most this many files in the source tree and pre-existing in the target
MaxSrcFiles == 2
MaxTgtFiles == 1
\* at most this many system calls fail for reasons outside the model
\* (permissions, full disk, a mount boundary)
MaxIOFaults == 1

pS   == <<"s">>
pSslash == <<"s", "/">>
pT   == <<"t">>
pU   == <<"u">>
pDot == <<".">>
pSa  == <<"s", "/", "a", ".", "j">>
pSa1 == <<"s", "/", "a", "(", "1", ")", ".", "j">>
pSd  == <<"s", "/", "d">>
pSda == <<"s", "/", "d", "/", "a", ".", "j">>
pSdda == <<"s", "/", "d", "/", "d", "/", "a", ".", "j">>
pTa  == <<"t", "/", "a", ".", "j">>
pTa1 == <<"t", "/", "a", "(", "1", ")", ".", "j">>
pTa2 == <<"t", "/", "a", "(", "2", ")", ".", "j">>
pTd  == <<"t", "/", "d">>
pTda == <<"t", "/", "d", "/", "a", ".", "j">>
pUa  == <<"u", "/", "a", ".", "j">>

\* the files a source tree may hold, and the files a target may hold before
\* the run
SrcEntries == {<<pSa, cA>>, <<pSa, BigP>>, <<pSa1, cB>>, <<pSda, cA>>, <<pSdda, cA>>}
TgtEntries == {<<pTa, cA>>, <<pTa, cC>>, <<pTa, BigQ>>, <<pTa1, cC>>, <<pTd, cC>>, <<pTda, cC>>}

\* the command line's positional arguments; a directory may be named with a
\* trailing separator
SourceArgs == {pS, pSslash, pSa, pTa, pU}
TargetArgs == {pT, pS, pU, pTa, pUa}

\* no path twice, and no file where another entry needs a directory
Consistent(E) ==
    \A e1, e2 \in E :
        /\ (e1[1] = e2[1] => e1 = e2)
        /\ Dir(e1[1]) # e2[1]

RECURSIVE Ancestors(_)
Ancestors(p) == IF Dir(p) = pDot THEN {} ELSE {Dir(p)} \cup Ancestors(Dir(p))

\* the tree holding the files E, their ancestors and the roots s and t
Tree(E) ==
    LET files == {e[1] : e \in E}
        dirs  == {pDot, pS, pT} \cup UNION {Ancestors(q) : q \in files}
    IN  [q \in files \cup dirs |->
            IF q \in dirs THEN DirNode
            ELSE FileNode((CHOOSE e \in E : e[1] = q)[2])]

(***************************************************************************)
(* State                                                                   *)
(***************************************************************************)

VARIABLES
    source, target, moveMode, fullHashMode, recursiveMode,  \* pcopy.go:33-39
    fs,            \* the file system
    pc,            \* where the main goroutine (front end, then walker) stands
    err,           \* what CopyFile / CopyDirectory returned to main
    jobNum,        \* size of the pool and capacity of both channels
    copyFileJobs,  \* the buffered work queue
    closed,        \* whether copyFileJobs is closed
    copyDone,      \* completion signals sent and not yet received
    idle,          \* workers blocked in `range copyFileJobs`
    exited,        \* workers that left the loop and signalled
    todo,          \* what filepath.Walk has still to visit, in order
    dirList,       \* directories recorded for removal
    rmList,        \* the sorted list the removal pass still has to go through
    calls,         \* CopyFile calls, by source path: position and locals
    faults,        \* system calls that failed so far
    fs0,           \* history: the file system when the program started
    deq,           \* history: entry -> how many times it was dequeued
    enq,           \* history: the entries enqueued, in order
    xferLog,       \* history: the transfers executed
    rmLog,         \* history: removals of directories, with the barrier state
    steps,         \* history: the steps taken so far
    compared,      \* the verdict of a hasSameContent call made on its own
    sample         \* the windows of a getParticalHash call made on its own

vars == <<source, target, moveMode, fullHashMode, recursiveMode, fs, pc, err, jobNum,
          copyFileJobs, closed, copyDone, idle, exited, todo, dirList, rmList, calls,
          faults, fs0, deq, enq, xferLog, rmLog, steps, compared, sample>>

args == <<source, target, moveMode, fullHashMode, recursiveMode>>
pool == <<jobNum, copyFileJobs, closed, copyDone, idle, exited>>
walk == <<todo, dirList, rmList>>
hist == <<fs0, deq, enq, xferLog, rmLog>>
unit == <<compared, sample>>

NotCompared == [verdict |-> "none"]
NotSampled == [filesize |-> I64(0), blockOffsets |-> <<>>]

\* every action is one step
Tick == steps' = steps + 1

\* the arguments name two different nodes, or are the same string
Distinct(src, tgt) == Clean(src) = Clean(tgt) => src = tgt

Init ==
    /\ source \in SourceArgs
    /\ target \in TargetArgs
    /\ Distinct(source, target)
    /\ moveMode \in BOOLEAN
    /\ fullHashMode \in BOOLEAN
    /\ recursiveMode \in BOOLEAN
    /\ \E SE \in SUBSET SrcEntries, TE \in SUBSET TgtEntries :
          /\ Cardinality(SE) <= MaxSrcFiles
          /\ Cardinality(TE) <= MaxTgtFiles
          /\ Consistent(SE \cup TE)
          /\ fs = Tree(SE \cup TE)
          \* -f changes nothing unless a file is above the sampling threshold
          /\ fullHashMode => \E e \in SE \cup TE : e[2].size > sampleThreshold
    /\ fs0 = fs
    /\ pc = "main"
    /\ err = "none"
    /\ jobNum = 0
    /\ copyFileJobs = <<>>
    /\ closed = FALSE
    /\ copyDone = 0
    /\ idle = 0
    /\ exited = 0
    /\ todo = <<>>
    /\ dirList = <<>>
    /\ rmList = <<>>
    /\ calls = <<>>
    /\ faults = 0
    /\ deq = <<>>
    /\ enq = <<>>
    /\ xferLog = {}
    /\ rmLog = {}
    /\ steps = 0
    /\ compared = NotCompared
    /\ sample = NotSampled

(***************************************************************************)
(* The front end: pcopy.go main                                            *)
(***************************************************************************)

NewCall(src, tgt, caller) ==
    [pc |-> "L165", by |-> caller, source |-> src, target |-> tgt, orig |-> <<>>,
     newTarget |-> <<>>, renameIdx |-> 0, probes |-> <<>>, outcome |-> "none"]

Running == {j \in DOMAIN calls : calls[j].pc # "done"}

\* main: a missing source is a usage error, a file goes to CopyFile, anything
\* else to CopyDirectory
Main ==
    /\ Tick
    /\ pc = "main"
    /\ LET sourceStatus == IsFileExist(fs, source)
       IN  IF sourceStatus = FileExistStatus_NotExist
           THEN pc' = "exit" /\ err' = "usage" /\ calls' = calls
           ELSE IF sourceStatus = FileExistStatus_File
           THEN pc' = "CopyFile" /\ err' = err
                /\ calls' = (source :> NewCall(source, target, "main"))
           ELSE pc' = "CopyDirectory" /\ err' = err /\ calls' = calls
    /\ UNCHANGED <<unit, args, fs, pool, walk, faults, hist>>

(***************************************************************************)
(* CopyFile and CopyFileInternal, one step per system call                 *)
(***************************************************************************)

\* the call returns e: main exits with it, a worker goes back to its loop
Return(j, rec, e) ==
    /\ calls' = [calls EXCEPT ![j] = [rec EXCEPT !.pc = "done"]]
    /\ IF calls[j].by = "main"
       THEN pc' = "exit" /\ err' = e /\ idle' = idle
       ELSE pc' = pc /\ err' = err /\ idle' = idle + 1

Goto(j, rec) ==
    /\ calls' = [calls EXCEPT ![j] = rec]
    /\ UNCHANGED <<pc, err, idle>>

\* line 165: a target that is a directory receives the source's base name
CopyFile_L165(j) ==
    /\ Tick
    /\ calls[j].pc = "L165"
    /\ LET c == calls[j]
       IN  IF IsFileExist(fs, c.target) = FileExistStatus_Directory
           THEN Goto(j, [c EXCEPT !.pc = "L139",
                                  !.target = Join(c.target, Base(c.source)),
                                  !.orig = Join(c.target, Base(c.source))])
           ELSE Goto(j, [c EXCEPT !.pc = "L173"])
    /\ UNCHANGED <<unit, args, fs, jobNum, copyFileJobs, closed, copyDone, exited, walk, faults, hist>>

\* lines 168-177: the parent of the target must be a directory
CopyFile_L173(j) ==
    /\ Tick
    /\ calls[j].pc = "L173"
    /\ LET c == calls[j]
           targetPath == Dir(c.target)
       IN  IF IsFileExist(fs, targetPath) # FileExistStatus_Directory
           THEN Return(j, [c EXCEPT !.outcome = "error"], "no_such_directory")
           ELSE Goto(j, [c EXCEPT !.pc = "L139", !.orig = c.target])
    /\ UNCHANGED <<unit, args, fs, jobNum, copyFileJobs, closed, copyDone, exited, walk, faults, hist>>

\* line 139: a free target is taken as it is; lines 144-145 otherwise
CopyFileInternal_L139(j) ==
    /\ Tick
    /\ calls[j].pc = "L139"
    /\ LET c == calls[j]
       IN  IF IsFileExist(fs, c.target) = FileExistStatus_NotExist
           THEN Goto(j, [c EXCEPT !.pc = "L140"])
           ELSE Goto(j, [c EXCEPT !.pc = "L146", !.renameIdx = 1, !.newTarget = c.target])
    /\ UNCHANGED <<unit, args, fs, jobNum, copyFileJobs, closed, copyDone, exited, walk, faults, hist>>

\* the verdict of one evaluation of the loop condition of line 146
Probe(f, src, candidate, fullHash) ==
    IF IsFileExist(f, candidate) = FileExistStatus_NotExist THEN "free"
    ELSE hasSameContent(f, src, candidate, fullHash)

NextCandidate_fromCandidate(c) == renameFile(c.newTarget, c.renameIdx)

\* line 147: the next candidate is built from the desired target
NextCandidate(c) == renameFile(c.target, c.renameIdx)

\* lines 146-151: one evaluation of the loop condition, and the loop body
\* when it holds
CopyFileInternal_L146(j) ==
    /\ Tick
    /\ calls[j].pc = "L146"
    /\ LET c == calls[j]
           verdict == Probe(fs, c.source, c.newTarget, fullHashMode)
           probed == [c EXCEPT !.probes = Append(c.probes, [path |-> c.newTarget, verdict |-> verdict])]
       IN  IF verdict = "differs"
           THEN Goto(j, [probed EXCEPT !.newTarget = NextCandidate(c),
                                       !.renameIdx = c.renameIdx + 1])
           ELSE IF verdict = "panic"
           THEN Goto(j, [probed EXCEPT !.pc = "panic"])
           ELSE Goto(j, [probed EXCEPT !.pc = "L152", !.target = c.newTarget])
    /\ UNCHANGED <<unit, args, fs, jobNum, copyFileJobs, closed, copyDone, exited, walk, faults, hist>>

\* line 152: the resolved target is probed once more
CopyFileInternal_L152(j) ==
    /\ Tick
    /\ calls[j].pc = "L152"
    /\ LET c == calls[j]
       IN  IF IsFileExist(fs, c.target) = FileExistStatus_NotExist
           THEN Goto(j, [c EXCEPT !.pc = "L153"])
           ELSE Goto(j, [c EXCEPT !.pc = "L155"])
    /\ UNCHANGED <<unit, args, fs, jobNum, copyFileJobs, closed, copyDone, exited, walk, faults, hist>>

\* what the system call of a transfer may do: succeed, fail, or (a copy) stop
\* after the target was created
IOOutcomes(move) ==
    IF faults >= MaxIOFaults THEN {"ok"}
    ELSE IF move THEN {"ok", "fail"} ELSE {"ok", "fail", "partial"}

doCopyOrMove_alwaysRename(f, src, tgt, move, io) ==
    IF io = "fail" THEN f ELSE Rename(f, src, tgt)

\* lines 66-75: os.Rename in move mode, doCopy otherwise
doCopyOrMove(f, src, tgt, move, io) ==
    IF io = "fail" THEN f
    ELSE IF move THEN Rename(f, src, tgt)
    ELSE doCopy(f, src, tgt, io = "ok")

TransferDone_fallThrough(j, rec) ==
    IF calls[j].pc = "L140"
    THEN Goto(j, [rec EXCEPT !.pc = "L146", !.renameIdx = 1, !.newTarget = rec.target])
    ELSE Return(j, rec, "nil")

\* lines 141 and 161: CopyFileInternal returns after its transfer
TransferDone(j, rec) == Return(j, rec, "nil")

\* lines 140 and 153: the transfer, and the return of nil
Transfer(j) ==
    /\ Tick
    /\ calls[j].pc \in {"L140", "L153"}
    /\ LET c == calls[j]
       IN  \E io \in IOOutcomes(moveMode) :
              /\ fs' = doCopyOrMove(fs, c.source, c.target, moveMode, io)
              /\ faults' = IF io = "ok" THEN faults ELSE faults + 1
              /\ xferLog' = xferLog \cup
                     {[job |-> j, path |-> Clean(c.target), io |-> io,
                       free |-> Stat(fs, c.target).kind = "none",
                       others |-> Running \ {j}]}
              /\ TransferDone(j, [c EXCEPT !.outcome = IF Clean(c.target) = Clean(c.orig)
                                                         THEN "orig" ELSE "renamed"])
    /\ UNCHANGED <<unit, args, jobNum, copyFileJobs, closed, copyDone, exited, walk,
                   fs0, deq, enq, rmLog>>

\* lines 155-158: the candidate is there: in move mode the source is removed
Skip(j) ==
    /\ Tick
    /\ calls[j].pc = "L155"
    /\ LET c == calls[j]
       IN  /\ fs' = IF moveMode THEN Remove(fs, c.source) ELSE fs
           /\ Return(j, [c EXCEPT !.outcome = "skip"], "nil")
    /\ UNCHANGED <<unit, args, jobNum, copyFileJobs, closed, copyDone, exited, walk, faults, hist>>

(***************************************************************************)
(* CopyDirectory: the walker (the calling goroutine)                       *)
(***************************************************************************)

jobNumCopy == 1
jobNumMove == 10

Precondition_targetOnly ==
    IF IsFileExist(fs, target) # FileExistStatus_Directory THEN "invalid_target"
    ELSE "nil"

\* lines 189-196: the error CopyDirectory returns before any work, or "nil"
Precondition ==
    IF source = target THEN "identical"
    ELSE IF IsFileExist(fs, target) # FileExistStatus_Directory THEN "invalid_target"
    ELSE "nil"

\* lines 189-201: the preconditions, then the size of the pool
CopyDirectory_Check ==
    /\ Tick
    /\ pc = "CopyDirectory"
    /\ IF Precondition # "nil"
       THEN pc' = "exit" /\ err' = Precondition /\ jobNum' = jobNum
       ELSE pc' = "spawn" /\ err' = err
            /\ jobNum' = IF moveMode THEN jobNumMove ELSE jobNumCopy
    /\ UNCHANGED <<unit, args, fs, copyFileJobs, closed, copyDone, idle, exited, walk, calls,
                   faults, hist>>

\* lines 203-224: both channels are made, jobNum workers are started and the
\* walk begins at the root
CopyDirectory_Spawn ==
    /\ Tick
    /\ pc = "spawn"
    /\ idle' = jobNum
    /\ todo' = <<source>>
    /\ pc' = "walk"
    /\ UNCHANGED <<unit, args, fs, err, jobNum, copyFileJobs, closed, copyDone, exited, dirList,
                   rmList, calls, faults, hist>>

\* what filepath.Walk visits below a directory: its names in lexical order
Below(f, path) ==
    LET names == SortAsc({Base(q) : q \in Children(f, path)})
    IN  [i \in 1..Len(names) |-> Join(path, names[i])]

\* the prefix of a walked path that the code cuts off: path[len(source)+1:]
Relative(path) == SliceFrom(path, Len(source) + 1)

MkdirOutcomes == IF faults >= MaxIOFaults THEN {"ok"} ELSE {"ok", "fail"}

Walk_Dir_keepUnmirrored(path, io) ==
    LET targetDirectory == Join(target, Relative(path))
        made == IF IsFileExist(fs, targetDirectory) = FileExistStatus_NotExist /\ io = "ok"
                THEN MkdirAll(fs, targetDirectory) ELSE fs
    IN  /\ fs' = made
        /\ dirList' = Append(dirList, path)
        /\ todo' = Below(fs, path) \o Tail(todo)

\* lines 225-246: the callback on a directory below the root in recursive mode
Walk_Dir(path, io) ==
    LET targetDirectory == Join(target, Relative(path))
        made == IF IsFileExist(fs, targetDirectory) = FileExistStatus_NotExist /\ io = "ok"
                THEN MkdirAll(fs, targetDirectory) ELSE fs
    IN  /\ fs' = made
        /\ IF IsFileExist(made, targetDirectory) # FileExistStatus_Directory
           THEN dirList' = dirList /\ todo' = Tail(todo)
           ELSE dirList' = Append(dirList, path) /\ todo' = Below(fs, path) \o Tail(todo)

SkipDir_never == FALSE

\* lines 230-232: without -r the callback answers filepath.SkipDir
SkipDir == ~recursiveMode

\* lines 224-246: one visit of the walk to a directory
WalkDirectory ==
    /\ Tick
    /\ pc = "walk"
    /\ todo # <<>>
    /\ Stat(fs, Head(todo)).kind = "dir"
    /\ LET path == Head(todo)
       IN  IF source = path
           THEN /\ todo' = Below(fs, path) \o Tail(todo)
                /\ UNCHANGED <<fs, dirList, faults>>
           ELSE IF SkipDir
           THEN /\ todo' = Tail(todo)
                /\ UNCHANGED <<fs, dirList, faults>>
           ELSE \E io \in MkdirOutcomes :
                   /\ Walk_Dir(path, io)
                   /\ faults' = IF io = "ok" THEN faults ELSE faults + 1
    /\ UNCHANGED <<unit, args, pc, err, pool, rmList, calls, hist>>

CanSend_unbounded == TRUE

\* a send on the buffered channel goes through when there is room
CanSend == Len(copyFileJobs) < jobNum

\* lines 247-249: a file is enqueued; the send blocks while the queue is full
WalkFile ==
    /\ Tick
    /\ pc = "walk"
    /\ todo # <<>>
    /\ Stat(fs, Head(todo)).kind = "file"
    /\ CanSend
    /\ copyFileJobs' = Append(copyFileJobs, Head(todo))
    /\ enq' = Append(enq, Head(todo))
    /\ todo' = Tail(todo)
    /\ UNCHANGED <<unit, args, fs, pc, err, jobNum, closed, copyDone, idle, exited, dirList, rmList,
                   calls, faults, fs0, deq, xferLog, rmLog>>

\* line 253
CloseQueue ==
    /\ Tick
    /\ pc = "walk"
    /\ todo = <<>>
    /\ closed' = TRUE
    /\ pc' = "barrier"
    /\ UNCHANGED <<unit, args, fs, err, jobNum, copyFileJobs, copyDone, idle, exited, walk, calls,
                   faults, hist>>

BarrierOpen_afterClose == closed

\* lines 255-257: the loop receives jobNum signals; the channel holds up to
\* jobNum of them, so it ends exactly when jobNum signals have been sent
BarrierOpen == copyDone = jobNum

\* lines 255-260: the barrier, and in move mode the sort of the directories
Barrier ==
    /\ Tick
    /\ pc = "barrier"
    /\ BarrierOpen
    /\ copyDone' = 0
    /\ IF moveMode
       THEN pc' = "rmdirs" /\ rmList' = Reverse(SortAsc(Range(dirList)))
       ELSE pc' = "return" /\ rmList' = rmList
    /\ UNCHANGED <<unit, args, fs, err, jobNum, copyFileJobs, closed, idle, exited, todo, dirList,
                   calls, faults, hist>>

\* lines 261-263: one removal; a directory that is not empty stays
RemoveDirectory ==
    /\ Tick
    /\ pc = "rmdirs"
    /\ rmList # <<>>
    /\ fs' = Remove(fs, Head(rmList))
    /\ rmList' = Tail(rmList)
    /\ rmLog' = rmLog \cup {[dir |-> Head(rmList), closed |-> closed, exited |-> exited,
                            running |-> Running, removed |-> fs' # fs]}
    /\ UNCHANGED <<unit, args, pc, err, pool, todo, dirList, calls, faults, fs0, deq, enq, xferLog>>

\* line 266
CopyDirectory_Return ==
    /\ Tick
    /\ \/ pc = "rmdirs" /\ rmList = <<>>
       \/ pc = "return"
    /\ pc' = "exit"
    /\ err' = "nil"
    /\ UNCHANGED <<unit, args, fs, pool, walk, calls, faults, hist>>

(***************************************************************************)
(* CopyDirectory: the workers (lines 207-219)                              *)
(***************************************************************************)

\* line 210: where the worker sends the entry
targetFilePath(path) == Join(target, Relative(path))

Receive_keepHead == copyFileJobs

\* the queue after a receive
Receive == Tail(copyFileJobs)

\* lines 208-211: a waiting worker takes the head of the queue and calls
\* CopyFile on it
WorkerReceive ==
    /\ Tick
    /\ idle > 0
    /\ copyFileJobs # <<>>
    /\ LET job == Head(copyFileJobs)
       IN  /\ calls' = (job :> NewCall(job, targetFilePath(job), "worker")) @@ calls
           /\ deq' = (job :> (IF job \in DOMAIN deq THEN deq[job] + 1 ELSE 1)) @@ deq
    /\ copyFileJobs' = Receive
    /\ idle' = idle - 1
    /\ UNCHANGED <<unit, args, fs, pc, err, jobNum, closed, copyDone, exited, walk, faults,
                   fs0, enq, xferLog, rmLog>>

Signalled_lost == copyDone

\* line 218: the completion channel after the worker's send
Signalled == copyDone + 1

\* lines 216-218: the queue is closed and drained: the worker leaves the
\* loop and signals
WorkerExit ==
    /\ Tick
    /\ idle > 0
    /\ copyFileJobs = <<>>
    /\ closed
    /\ idle' = idle - 1
    /\ exited' = exited + 1
    /\ copyDone' = Signalled
    /\ UNCHANGED <<unit, args, fs, pc, err, jobNum, copyFileJobs, closed, walk, calls, faults, hist>>

Next ==
    \/ Main
    \/ \E j \in DOMAIN calls : CopyFile_L165(j)
    \/ \E j \in DOMAIN calls : CopyFile_L173(j)
    \/ \E j \in DOMAIN calls : CopyFileInternal_L139(j)
    \/ \E j \in DOMAIN calls : CopyFileInternal_L146(j)
    \/ \E j \in DOMAIN calls : CopyFileInternal_L152(j)
    \/ \E j \in DOMAIN calls : Transfer(j)
    \/ \E j \in DOMAIN calls : Skip(j)
    \/ CopyDirectory_Check
    \/ CopyDirectory_Spawn
    \/ WalkDirectory
    \/ WalkFile
    \/ CloseQueue
    \/ Barrier
    \/ RemoveDirectory
    \/ CopyDirectory_Return
    \/ WorkerReceive
    \/ WorkerExit

Spec == Init /\ [][Next]_vars

(***************************************************************************)
(* The comparator on its own: hasSameContent and getParticalHash applied   *)
(* to arbitrary arguments                                                  *)
(***************************************************************************)

\* the paths a caller may hand to hasSameContent
ComparePaths == {pSa, pSa1, pTa, pTa1, pT}

\* the sizes a caller may hand to getParticalHash: around the threshold of
\* line 121, and around the sizes where 2 * (filesize - blockSize) leaves
\* the int64 range
SampleSizes ==
    {I64(0), I64(10), I64(blockSize - 1), I64(sampleThreshold),
     I64(sampleThreshold + 1), I64(sampleThreshold + 2), I64(sampleThreshold + 3),
     I64(BigSize), I64(2147483647), <<0, 1, 0, 0>>,
     <<16384, 0, 0, blockSize - 1>>, <<16384, 0, 0, blockSize>>,
     <<32767, 65535, 65535, 65535>>}

HashInit ==
    /\ source \in ComparePaths
    /\ target \in ComparePaths
    /\ fullHashMode \in BOOLEAN
    /\ moveMode = FALSE
    /\ recursiveMode = FALSE
    /\ \E SE \in SUBSET SrcEntries, TE \in SUBSET TgtEntries :
          /\ Cardinality(SE) <= MaxSrcFiles
          /\ Cardinality(TE) <= MaxTgtFiles
          /\ Consistent(SE \cup TE)
          /\ fs = Tree(SE \cup TE)
    /\ fs0 = fs
    /\ pc = "hasSameContent"
    /\ err = "none"
    /\ jobNum = 0
    /\ copyFileJobs = <<>>
    /\ closed = FALSE
    /\ copyDone = 0
    /\ idle = 0
    /\ exited = 0
    /\ todo = <<>>
    /\ dirList = <<>>
    /\ rmList = <<>>
    /\ calls = <<>>
    /\ faults = 0
    /\ deq = <<>>
    /\ enq = <<>>
    /\ xferLog = {}
    /\ rmLog = {}
    /\ steps = 0
    /\ compared = NotCompared
    /\ sample = NotSampled

\* hasSameContent(source, target, fullHashMode)
Compare ==
    /\ compared = NotCompared
    /\ compared' = [verdict |-> hasSameContent(fs, source, target, fullHashMode)]
    /\ UNCHANGED <<args, fs, pc, err, pool, walk, calls, faults, hist, steps, sample>>

\* getParticalHash(filename, filesize) for a size that selects it
Sample ==
    /\ sample = NotSampled
    /\ \E filesize \in SampleSizes :
          /\ Sampled(fullHashMode, filesize)
          /\ sample' = [filesize |-> filesize, blockOffsets |-> blockOffsets(filesize)]
    /\ UNCHANGED <<args, fs, pc, err, pool, walk, calls, faults, hist, steps, compared>>

HashNext ==
    \/ Compare
    \/ Sample

HashSpec == HashInit /\ [][HashNext]_vars

(***************************************************************************)
(* Properties                                                              *)
(***************************************************************************)

Done == {j \in DOMAIN calls : calls[j].pc = "done"}

\* the run went through CopyDirectory and passed its preconditions
TreeRun == jobNum > 0

\* the content the comparator cannot tell from c: equal sizes and equal
\* fingerprints under the hashing strategy the mode selects
ComparatorSame(c1, c2) ==
    /\ c1.size = c2.size
    /\ IF ~fullHashMode /\ c1.size > sampleThreshold THEN c1.win = c2.win
       ELSE c1.win = c2.win /\ c1.rest = c2.rest

\* C1: during one CopyDirectory call no two workers transfer onto the same
\* final target path: two transfers that both went through, issued by calls
\* that were in progress at the same time (hence on two workers), never name
\* the same path.
C1_DisjointTargets ==
    \A r1, r2 \in xferLog :
        (/\ r1.job # r2.job
         /\ r1.io = "ok" /\ r2.io = "ok"
         /\ (r1.job \in r2.others \/ r2.job \in r1.others))
        => r1.path # r2.path

\* C2: in move mode, whenever a worker's call has ended and its source file
\* is gone from the source tree, the final target path of that call holds a
\* file with the content the source had (a content the comparator confirms
\* as identical, in the duplicate case).
C2_NoSourceLost ==
    \A j \in Done :
        (/\ moveMode
         /\ calls[j].by = "worker"
         /\ Stat(fs, j).kind = "none")
        => /\ Stat(fs, calls[j].target).kind = "file"
           /\ ComparatorSame(fs0[Clean(j)].content, Stat(fs, calls[j].target).content)

\* the pre-existing files at or below the target argument
UnderTarget(p) == p = Clean(target) \/ Clean(target) \in Ancestors(p)

\* C3: never overwrite: after a CopyFile or CopyDirectory call, every file
\* that existed under the target before the call is still there with the
\* content it had.
C3_NeverOverwrite ==
    pc = "exit" =>
        \A p \in DOMAIN fs0 :
            (fs0[p].kind = "file" /\ UnderTarget(p))
            => (p \in DOMAIN fs /\ fs[p] = fs0[p])

NoDuplicates(q) == \A i, k \in 1..Len(q) : q[i] = q[k] => i = k

\* C4: every entry the walker enqueues is dequeued exactly once (never
\* twice, and only entries that were enqueued), and when CopyDirectory has
\* returned every enqueued entry has been dequeued and its CopyFile call has
\* run to its end.
C4_ExactlyOnce ==
    /\ NoDuplicates(enq)
    /\ \A e \in DOMAIN deq : e \in Range(enq) /\ deq[e] = 1
    /\ \A e \in Range(copyFileJobs) : e \in Range(enq) /\ e \notin DOMAIN deq
    /\ (pc = "exit" /\ TreeRun) =>
           \A e \in Range(enq) : e \in DOMAIN deq /\ e \in Done

C4_Witness ==
    /\ pc = "exit" /\ TreeRun /\ moveMode
    /\ Len(enq) >= 2
    /\ \A e \in Range(enq) : e \in Done

\* C5: in move mode every attempt to remove a source directory happens after
\* the queue was closed, all jobNum workers have signalled and no CopyFile
\* call is in progress; and a directory of the initial tree disappears only
\* through the walker's removal pass.
C5_RemovalAfterBarrier ==
    /\ \A r \in rmLog : r.closed /\ r.exited = jobNum /\ r.running = {}
    /\ pc = "rmdirs" => (closed /\ exited = jobNum /\ idle = 0 /\ Running = {})
    /\ \A p \in DOMAIN fs0 :
           (fs0[p].kind = "dir" /\ p \notin DOMAIN fs)
           => \E r \in rmLog : r.dir = p /\ r.removed

C5_Witness ==
    /\ moveMode /\ Len(enq) >= 1
    /\ \E r \in rmLog : r.removed

\* the source directories strictly between the root and a walked path
DirsAbove(e) == {a \in Ancestors(e) : Clean(source) \in Ancestors(a)}

\* C6: an entry is in the queue (or was) only if every source directory above
\* it has been mirrored: its mirror under the target is a directory and the
\* walker recorded it; and whenever a worker is about to transfer, the parent
\* of the path it writes to is a directory.
C6_ParentMirrored ==
    /\ \A e \in Range(enq) :
          /\ Stat(fs, Dir(targetFilePath(e))).kind = "dir"
          /\ \A a \in DirsAbove(e) :
                /\ Stat(fs, Join(target, Relative(a))).kind = "dir"
                /\ a \in Range(dirList)
    /\ \A j \in Running :
          (calls[j].by = "worker" /\ calls[j].pc \in {"L140", "L153"})
          => Stat(fs, Dir(calls[j].target)).kind = "dir"

C6_Witness ==
    \E j \in Done :
        /\ calls[j].by = "worker"
        /\ DirsAbove(j) # {}
        /\ calls[j].outcome \in {"orig", "renamed"}

\* C8: CopyDirectory returns an error exactly when source equals target or
\* the target is not an existing directory, and then nothing was done: no
\* worker started, no entry enqueued, no transfer, no removal, the file
\* system as it was.
C8_Preconditions ==
    (pc = "exit" /\ IsFileExist(fs0, source) = FileExistStatus_Directory) =>
        /\ (err # "nil") <=>
               (source = target \/ IsFileExist(fs0, target) # FileExistStatus_Directory)
        /\ (err # "nil") =>
               /\ fs = fs0
               /\ jobNum = 0 /\ idle = 0 /\ exited = 0 /\ copyDone = 0
               /\ calls = <<>> /\ enq = <<>> /\ xferLog = {} /\ rmLog = {}
               /\ ~closed

C8_Witness ==
    /\ pc = "exit"
    /\ IsFileExist(fs0, source) = FileExistStatus_Directory
    /\ err = "identical"

\* name(n).ext: the tag "(n)" placed before the last "." of the last element
\* of the path, at its end when there is none
Numbered(t, n) ==
    LET dots == {i \in 1..Len(t) : t[i] = "." /\ \A k \in i..Len(t) : t[k] # "/"}
        cut  == IF dots = {} THEN Len(t) + 1
                ELSE CHOOSE i \in dots : \A k \in dots : k <= i
    IN  SubSeq(t, 1, cut - 1) \o <<"(">> \o Itoa(n) \o <<")">> \o SubSeq(t, cut, Len(t))

\* the n-th candidate of the resolver: the desired target, then name(1).ext,
\* name(2).ext, ...
Candidate(t, n) == IF n = 0 THEN t ELSE Numbered(t, n)

Resolved == {j \in DOMAIN calls : calls[j].pc \in {"L152", "L153", "L155", "done"}
                                  /\ calls[j].probes # <<>>}

\* C9: the resolver probes the desired target, then name(1).ext,
\* name(2).ext, ... in this order without a gap; every candidate it passed
\* existed and was judged different from the source by the comparator when
\* probed, and the final path is the first candidate that was free or judged
\* identical. With a single thread of transfers (copy mode, or CopyFile from
\* the front end) the final path is, at the moment it is chosen, the first
\* candidate of the sequence that is free or identical in the file system.
C9_CandidateOrder ==
    /\ \A j \in DOMAIN calls :
          LET c == calls[j]
              k == Len(c.probes)
          IN  /\ \A i \in 1..k : c.probes[i].path = Candidate(c.orig, i - 1)
              /\ \A i \in 1..(k - 1) : c.probes[i].verdict = "differs"
              /\ c.pc = "L146" => c.newTarget = Candidate(c.orig, k)
    /\ \A j \in Resolved :
          LET c == calls[j]
              k == Len(c.probes)
          IN  /\ c.probes[k].verdict \in {"free", "same"}
              /\ c.target = c.probes[k].path
              /\ (c.pc = "L152" /\ jobNum <= 1) =>
                    /\ \A i \in 0..(k - 2) :
                          Probe(fs, c.source, Candidate(c.orig, i), fullHashMode) = "differs"
                    /\ Probe(fs, c.source, c.target, fullHashMode) \in {"free", "same"}

C9_Witness ==
    \E j \in Done :
        /\ Len(calls[j].probes) = 3
        /\ calls[j].outcome = "renamed"
        /\ calls[j].orig = pTa
        /\ calls[j].target = pTa2
        /\ Stat(fs, pTa2).kind = "file"

TransfersOf(j) == {r \in xferLog : r.job = j}

\* C10: a CopyFileInternal call that has ended has exactly one outcome:
\* transferred to its original target (one transfer, onto that path),
\* transferred to a renamed path (one transfer, onto a numbered candidate),
\* or skipped (no transfer at all); no call ever transfers twice.
C10_OneOutcome ==
    /\ \A j \in DOMAIN calls : Cardinality(TransfersOf(j)) <= 1
    /\ \A j \in Done :
          LET c == calls[j]
          IN  c.outcome # "error" =>
                 \/ /\ c.outcome = "orig"
                    /\ \E r \in xferLog : TransfersOf(j) = {r} /\ r.path = Clean(c.orig)
                 \/ /\ c.outcome = "renamed"
                    /\ \E r \in xferLog :
                          /\ TransfersOf(j) = {r}
                          /\ r.path # Clean(c.orig)
                          /\ \E n \in 1..Len(c.probes) : r.path = Clean(Numbered(c.orig, n))
                 \/ /\ c.outcome = "skip"
                    /\ TransfersOf(j) = {}

C10_Witness ==
    \E j1, j2 \in Done :
        /\ calls[j1].outcome = "skip" /\ TransfersOf(j1) = {}
        /\ calls[j2].outcome \in {"orig", "renamed"} /\ TransfersOf(j2) # {}

\* some goroutine has a step to take: the guards of the actions, one by one
CanStep ==
    \/ pc \in {"main", "CopyDirectory", "spawn", "rmdirs", "return"}
    \/ pc = "walk" /\ (todo = <<>> \/ Stat(fs, Head(todo)).kind = "dir"
                       \/ (Stat(fs, Head(todo)).kind = "file" /\ CanSend))
    \/ pc = "barrier" /\ copyDone = jobNum
    \/ idle > 0 /\ (copyFileJobs # <<>> \/ closed)
    \/ \E j \in DOMAIN calls :
          calls[j].pc \in {"L165", "L173", "L139", "L140", "L146", "L152", "L153", "L155"}

\* more steps than any run takes: the fixed steps of the front end and the
\* walker, one exit per worker, two steps per directory (visit, removal) and
\* for every file its visit, its receive and a CopyFile call that probes at
\* most every node of the file system once
StepBound ==
    LET nodes == Cardinality(DOMAIN fs0)
    IN  8 + jobNumMove + 2 * nodes + nodes * (8 + 2 * nodes)

\* C7: CopyDirectory terminates without deadlock. Until the program exits
\* some goroutine can take a step, and no run takes more than StepBound
\* steps, so every run in which a goroutine that can run does run reaches the
\* exit; a tree copy that passed its preconditions ends with the queue
\* closed and drained, all jobNum workers gone after one signal each, every
\* signal received and no call unfinished, whatever system calls failed on
\* the way.
C7_Terminates ==
    /\ pc = "exit" \/ CanStep
    /\ steps <= StepBound
    /\ exited <= jobNum /\ copyDone <= exited /\ idle + exited <= jobNum
    /\ (pc = "exit" /\ TreeRun) =>
            /\ closed /\ copyFileJobs = <<>>
            /\ exited = jobNum /\ idle = 0 /\ copyDone = 0
            /\ Running = {}

C7_Witness ==
    /\ pc = "exit" /\ TreeRun
    /\ jobNum = jobNumMove /\ exited = jobNumMove
    /\ faults > 0
    /\ Cardinality(Done) >= 2

\* the calls whose desired target T held, before the run, a file
\* byte-identical to the source S, with S and T two different files and T
\* not itself an entry this run transfers
OntoIdentical ==
    {j \in Done :
        LET S == Clean(calls[j].source)
            T == Clean(calls[j].orig)
        IN  /\ calls[j].orig # <<>>
            /\ S # T
            /\ S \in DOMAIN fs0 /\ T \in DOMAIN fs0
            /\ fs0[S].kind = "file"
            /\ fs0[T] = fs0[S]
            /\ T \notin DOMAIN calls}

\* C11: idempotence: a call that copies or moves S onto an existing target
\* T with byte-identical content ends as a skip at T itself, has transferred
\* nothing (so no further file appears in the target), leaves T with the
\* content it had, and S is gone if and only if move mode is on.
C11_Idempotent ==
    \A j \in OntoIdentical :
        LET c == calls[j]
            S == Clean(c.source)
            T == Clean(c.orig)
        IN  /\ c.outcome = "skip"
            /\ c.target = c.orig
            /\ TransfersOf(j) = {}
            /\ T \in DOMAIN fs /\ fs[T] = fs0[T]
            /\ (S \notin DOMAIN fs) <=> moveMode
            /\ ~moveMode => fs[S] = fs0[S]

C11_Witness ==
    /\ moveMode
    /\ \E j \in OntoIdentical :
          /\ calls[j].by = "worker"
          /\ Clean(calls[j].source) \notin DOMAIN fs

\* the directories of the source tree before the run, the root included
SourceDirs ==
    {p \in DOMAIN fs0 : /\ fs0[p].kind = "dir"
                        /\ (p = Clean(source) \/ Clean(source) \in Ancestors(p))}

FilesBelow(f, d) == {p \in DOMAIN f : f[p].kind = "file" /\ d \in Ancestors(p)}

\* C12: after a move every directory of the source tree is gone if and only
\* if no file is left below it.
C12_EveryDirectory ==
    (pc = "exit" /\ TreeRun /\ moveMode) =>
        \A d \in SourceDirs : (d \notin DOMAIN fs) <=> (FilesBelow(fs, d) = {})

\* C12, for the directories the walker recorded (the subdirectories visited
\* in recursive mode whose mirror exists): the removal pass goes through them
\* children before parents, and after it a recorded directory is gone if and
\* only if nothing is left in it, so a recorded directory still holding a file
\* remains and a parent emptied by the removal of its children is removed;
\* nothing is ever removed from under its entries; the root and the
\* directories the walk skipped stay.
C12_RecordedRemovedIffEmpty ==
    /\ pc = "rmdirs" =>
          \A i, k \in 1..Len(rmList) : i < k => rmList[i] \notin Ancestors(rmList[k])
    /\ \A p \in DOMAIN fs : p # pDot => Stat(fs, Dir(p)).kind = "dir"
    /\ \A d \in SourceDirs : d \notin Range(dirList) => d \in DOMAIN fs
    /\ (pc = "exit" /\ TreeRun /\ moveMode) =>
          \A d \in Range(dirList) :
              /\ (d \notin DOMAIN fs) <=> (FilesBelow(fs, d) = {})
              /\ d \in DOMAIN fs => Children(fs, d) # {}

C12_Witness ==
    /\ pc = "exit" /\ TreeRun /\ moveMode
    /\ pSd \in SourceDirs /\ Children(fs0, pSd) = {Dir(pSdda)}
    /\ \E r1, r2 \in rmLog : r1.dir = Dir(pSdda) /\ r1.removed /\ r2.dir = pSd /\ r2.removed
    /\ pSd \notin DOMAIN fs

\* the nodes of the source tree at or below a subdirectory of the root
InSubdirectory ==
    {p \in DOMAIN fs0 : \E d \in SourceDirs \ {Clean(source)} : p = d \/ d \in Ancestors(p)}

\* C13: in non-recursive mode CopyDirectory records and mirrors no
\* directory (no directory appears or disappears anywhere), enqueues and
\* transfers only files that lie directly in the source root, and leaves
\* every source subdirectory with everything below it as it was, in copy and
\* in move mode.
C13_NonRecursive ==
    (TreeRun /\ ~recursiveMode) =>
        /\ dirList = <<>> /\ rmLog = {}
        /\ {p \in DOMAIN fs : fs[p].kind = "dir"} = {p \in DOMAIN fs0 : fs0[p].kind = "dir"}
        /\ \A e \in Range(enq) : Dir(e) = Clean(source) /\ e \notin InSubdirectory
        /\ \A j \in DOMAIN calls : Dir(j) = Clean(source)
        /\ \A r \in xferLog : Dir(r.job) = Clean(source) /\ r.path \notin InSubdirectory
        /\ \A p \in InSubdirectory : p \in DOMAIN fs /\ fs[p] = fs0[p]

C13_Witness ==
    /\ pc = "exit" /\ TreeRun /\ ~recursiveMode /\ moveMode
    /\ pSda \in InSubdirectory /\ pSda \in DOMAIN fs
    /\ pSa \in DOMAIN fs0 /\ pSa \notin DOMAIN fs
    /\ \E r \in xferLog : r.job = pSa /\ r.io = "ok"

\* C14: a transfer whose copy or rename failed makes the CopyFile call that
\* issued it return an error: the call ends with the error outcome, and the
\* front end, when it made the call, exits with an error.
C14_FailureReported ==
    \A j \in Done :
        \A r \in TransfersOf(j) :
            r.io # "ok" =>
                /\ calls[j].outcome = "error"
                /\ calls[j].by = "main" => err # "nil"

\* C15: a move whose rename is refused (as it is, with EXDEV, when source
\* and target lie on different mounts) falls back to copy-then-delete: when
\* the call has ended the content of the source is at the target and the
\* source is gone.
C15_CrossMountFallback ==
    \A j \in Done :
        \A r \in TransfersOf(j) :
            (moveMode /\ r.io = "fail" /\ r.free /\ r.others = {}) =>
                /\ Stat(fs, calls[j].target).kind = "file"
                /\ Stat(fs, calls[j].target).content = fs0[Clean(calls[j].source)].content
                /\ Stat(fs, calls[j].source).kind = "none"

\* the source argument and, when it is a directory, everything below it
UnderSource(p) == p = Clean(source) \/ Clean(source) \in Ancestors(p)

\* C16: in copy mode every file and directory of the source is, at every
\* moment of a CopyFile or CopyDirectory call, where it was and what it was:
\* none is removed, renamed or modified, whether its entry is placed,
\* renamed, skipped as a duplicate or fails.
C16_CopyModeFrame ==
    ~moveMode =>
        \A p \in DOMAIN fs0 : UnderSource(p) => (p \in DOMAIN fs /\ fs[p] = fs0[p])

C16_Witness ==
    /\ ~moveMode /\ pc = "exit" /\ TreeRun
    /\ \E j1, j2 \in Done :
          /\ calls[j1].outcome = "skip"
          /\ \E r \in TransfersOf(j2) : r.io # "ok"

\* C17: a stat or hash failure on either file makes hasSameContent return
\* false: whenever one of the two paths cannot be stat'ed or yields an empty
\* fingerprint, the verdict is "differs" (never "same", and no crash).
C17_FailureIsNotEqual ==
    (/\ compared # NotCompared
     /\ \/ Stat(fs, source).kind = "none"
        \/ Stat(fs, target).kind = "none"
        \/ getFullHash(fs, source) = <<>>
        \/ getFullHash(fs, target) = <<>>)
    => compared.verdict = "differs"

\* C20: whenever the sampled strategy is selected, the file is at least one
\* block long, the four offsets are non-decreasing, each lies in [0, size)
\* and each window of blockSize bytes ends at or before the end of the file.
C20_WindowsInsideFile ==
    sample # NotSampled =>
        LET size == sample.filesize
            off  == sample.blockOffsets
        IN  /\ Leq64(I64(blockSize), size)
            /\ \A i \in 1..3 : Leq64(off[i], off[i + 1])
            /\ \A i \in 1..4 :
                  /\ Leq64(I64(0), off[i])
                  /\ Less64(off[i], size)
                  /\ Leq64(Add64(off[i], I64(blockSize)), size)

\* the path of a walked entry relative to the source root (filepath.Rel)
RelativeToRoot(path) == SliceFrom(path, Len(Clean(source)) + 1)

\* C18: the target a worker passes to CopyFile for a walked file is the
\* target root joined with the file's whole path relative to the source
\* root, and every recorded source directory has its mirror at the target
\* root joined with its whole relative path.
C18_MirroredPath ==
    /\ \A j \in DOMAIN calls :
          (calls[j].by = "worker" /\ calls[j].pc = "L165") =>
              calls[j].target = Join(target, RelativeToRoot(j))
    /\ \A d \in Range(dirList) :
          Stat(fs, Join(target, RelativeToRoot(d))).kind = "dir"

\* the worker goroutines that are inside a CopyFile call
Working == {j \in Running : calls[j].by = "worker"}

\* the walk cannot go on: none of its three steps is possible
WalkerBlocked ==
    /\ pc = "walk"
    /\ todo # <<>>
    /\ Stat(fs, Head(todo)).kind # "dir"
    /\ ~(Stat(fs, Head(todo)).kind = "file" /\ CanSend)

QueueFull == Len(copyFileJobs) = jobNum

\* C19: the pool has exactly 1 worker in copy mode and 10 in move mode (each
\* idle, inside CopyFile or gone), the queue never holds more entries than
\* that, during the walk the walker is unable to step exactly when the entry
\* in its hand is a file and the queue is full, and whenever it is blocked
\* the queue holds an entry for a worker to take and the queue that the
\* receive leaves has room, so that the send goes through.
C19_QueueAndPool ==
    /\ TreeRun => jobNum = (IF moveMode THEN 10 ELSE 1)
    /\ (TreeRun /\ pc # "spawn") => idle + Cardinality(Working) + exited = jobNum
    /\ Len(copyFileJobs) <= jobNum
    /\ pc = "walk" =>
          (WalkerBlocked <=> (todo # <<>> /\ Stat(fs, Head(todo)).kind = "file" /\ QueueFull))
    /\ WalkerBlocked => (copyFileJobs # <<>> /\ Len(Receive) < jobNum)

C19_Witness ==
    /\ WalkerBlocked
    /\ QueueFull
    /\ enq # <<>>

====
